---------------------------- MODULE Spec2Model ----------------------------
(***************************************************************************)
(* CardsAPI: the monster-card and player repositories (app/crud), the       *)
(* relational constraints of their tables (app/models), the HTTP routers    *)
(* (app/routers) and the card renderer, as a state machine.                 *)
(*                                                                          *)
(* An optional value is a set with at most one element: None is {} and a    *)
(* present value v is {v}.  A record of the database is a function from     *)
(* column names to optional values; a table is a function from the ids of   *)
(* its rows to records.  Text that the code inspects character by           *)
(* character (names, search terms) is a tuple of one-character strings.     *)
(***************************************************************************)
EXTENDS Integers, Sequences, FiniteSets, TLC

VARIABLES cards, nextCardId, players, nextPlayerId, images, prev, last

vars == <<cards, nextCardId, players, nextPlayerId, images, prev, last>>

None == {}

Some(v) == {v}

Val(o) == CHOOSE v \in o : TRUE

(***************************************************************************)
(* Bounds of the model.                                                     *)
(***************************************************************************)
MaxCards == 2

MaxPlayers == 2

(***************************************************************************)
(* Input alphabets.                                                         *)
(***************************************************************************)
NameFi == <<"F", "i">>

NameAF == <<"a", " ", "F">>

CardNames == {NameFi, NameAF}

CardTypes == {"fire", "water"}

CardFields ==
    {"name", "description", "primary_type", "secondary_type",
     "health", "attack", "defense", "speed"}

StatFields == {"health", "attack", "defense", "speed"}

\* nullable=False columns of monster_cards
CardRequired == {"name", "primary_type"} \cup StatFields

EmptyMap == [k \in {} |-> None]

(***************************************************************************)
(* The monster_cards table's constraints, as the backend checks them at     *)
(* commit: the set of constraints that row `card` under id `id` violates    *)
(* against the other rows of `store`.                                       *)
(***************************************************************************)
CardViolations(store, id, card) ==
    {c \in {"not_null", "unique_name", "check_nonneg"} :
        \/ c = "not_null" /\ \E f \in CardRequired : card[f] = None
        \/ c = "unique_name"
             /\ card["name"] # None
             /\ \E j \in DOMAIN store \ {id} : store[j]["name"] = card["name"]
        \/ c = "check_nonneg"
             /\ \E f \in StatFields : card[f] # None /\ Val(card[f]) < 0}

\* players.monster_card_id rows that reference card `id`
ReferencingNone(pstore, id) == {}

Referencing(pstore, id) ==
    {p \in DOMAIN pstore : pstore[p]["monster_card_id"] = Some(id)}

--------------------------------------------------------------------------
(***************************************************************************)
(* Card repository.                                                         *)
(***************************************************************************)

\* get_card: the row with this primary key, or None
get_card(store, card_id) ==
    IF card_id \in DOMAIN store THEN Some(card_id) ELSE None

\* get_card_by_name: the row with this exact name, or None
get_card_by_name(store, name) ==
    {i \in DOMAIN store : store[i]["name"] = Some(name)}

\* create_card: secondary = data.secondary_type or data.primary_type
CreateSecondaryNoFill(data) == data["secondary_type"]

CreateSecondary(data) ==
    IF data["secondary_type"] = None
    THEN data["primary_type"]
    ELSE data["secondary_type"]

NewCard(data) == [data EXCEPT !["secondary_type"] = CreateSecondary(data)]

\* MonsterCardCreate: name 1..255 characters, primary_type and the four stats
\* required, each stat >= 0.
MonsterCardCreate(data) ==
    /\ data["name"] # None /\ Len(Val(data["name"])) \in 1 .. 255
    /\ data["primary_type"] # None
    /\ \A f \in StatFields : data[f] # None /\ Val(data[f]) >= 0

\* MonsterCardUpdate: every field optional (null allowed); a name that is
\* given has 1..255 characters and a stat that is given is >= 0.
MonsterCardUpdate(updates) ==
    /\ "name" \in DOMAIN updates /\ updates["name"] # None
          => Len(Val(updates["name"])) \in 1 .. 255
    /\ \A f \in StatFields \cap DOMAIN updates :
          updates[f] # None => Val(updates[f]) >= 0

\* PlayerCreate and PlayerUpdate are both PlayerBase: name and team required.
PlayerBase(body) ==
    /\ "name" \in DOMAIN body /\ body["name"] # None
    /\ Len(Val(body["name"])) \in 1 .. 255
    /\ "team" \in DOMAIN body /\ body["team"] # None

\* The status of the HTTP request that carries this body: a body its schema
\* rejects never reaches the route (the framework answers 422 itself; main.py
\* installs no handler that changes this), any other gets the route's status.
Http(valid, status) == IF valid THEN status ELSE 422

\* The outcome of the last call: the exception it raised ("" for none), what
\* the exception reports (the constraints a failed commit violated, or the
\* message of an explicit raise), the HTTP status of the route that wraps the
\* call, and what the call returned.
Outcome(op, id, data, exc, detail, http, ret) ==
    [op |-> op, id |-> id, data |-> data, exc |-> exc, detail |-> detail,
     http |-> http, ret |-> ret]

Snapshot == [cards |-> cards, players |-> players, images |-> images]

\* POST /monster-cards/: only DuplicateNameError is translated (409); an
\* HTTPException raised inside create_card passes through with its status.
create_monster_card(exc) ==
    CASE exc = "" -> 201
      [] exc = "DuplicateNameError" -> 409
      [] exc = "HTTPException" -> 400
      [] OTHER -> 500

CreateCard(data) ==
    LET card == NewCard(data)
        viol == CardViolations(cards, nextCardId, card)
    IN  /\ nextCardId <= MaxCards
        /\ prev' = Snapshot
        /\ IF viol = {}
           THEN /\ cards' = cards @@ (nextCardId :> card)
                /\ nextCardId' = nextCardId + 1
                /\ last' = Outcome("create_card", nextCardId, data, "", {},
                                   Http(MonsterCardCreate(data),
                                        create_monster_card("")),
                                   Some(nextCardId))
           ELSE \* db.commit() raised: HTTPException(status_code=400)
                /\ UNCHANGED <<cards, nextCardId>>
                /\ last' = Outcome("create_card", 0, data, "HTTPException", viol,
                                   Http(MonsterCardCreate(data),
                                        create_monster_card("HTTPException")),
                                   None)
        /\ UNCHANGED <<players, nextPlayerId, images>>

\* _UPDATABLE_FIELDS
CardUpdatable == CardFields

Clean(updates, allowed) ==
    [k \in DOMAIN updates \cap allowed |-> updates[k]]

\* for field, value in clean.items(): setattr(card, field, value)
SetAttrs(row, clean) ==
    [f \in DOMAIN row |-> IF f \in DOMAIN clean THEN clean[f] ELSE row[f]]

AutoFillNever(clean) == FALSE

AutoFillAlways(clean) == TRUE

\* "primary_type" in clean and ("secondary_type" not in clean or
\*  clean.get("secondary_type") is None)
AutoFill(clean) ==
    /\ "primary_type" \in DOMAIN clean
    /\ \/ "secondary_type" \notin DOMAIN clean
       \/ clean["secondary_type"] = None

PatchedCard(card, clean) ==
    LET set == SetAttrs(card, clean)
    IN  IF AutoFill(clean)
        THEN [set EXCEPT !["secondary_type"] = set["primary_type"]]
        ELSE set

\* PATCH /monster-cards/{id}
patch_monster_card(exc) ==
    CASE exc = "" -> 200
      [] exc = "NotFoundError" -> 404
      [] exc = "DuplicateNameError" -> 409
      [] OTHER -> 500

UpdateCard(card_id, updates) ==
    /\ prev' = Snapshot
    /\ UNCHANGED <<nextCardId, players, nextPlayerId, images>>
    /\ IF get_card(cards, card_id) = None
       THEN /\ UNCHANGED cards
            /\ last' = Outcome("update_card", card_id, updates, "NotFoundError", {},
                               Http(MonsterCardUpdate(updates),
                                    patch_monster_card("NotFoundError")), None)
       ELSE LET clean == Clean(updates, CardUpdatable)
                card == PatchedCard(cards[card_id], clean)
                viol == CardViolations(cards, card_id, card)
                exc == IF "name" \in DOMAIN clean
                       THEN "DuplicateNameError" ELSE "IntegrityError"
            IN  IF viol = {}
                THEN /\ cards' = [cards EXCEPT ![card_id] = card]
                     /\ last' = Outcome("update_card", card_id, updates, "", {},
                                        Http(MonsterCardUpdate(updates),
                                             patch_monster_card("")),
                                        Some(card_id))
                ELSE \* IntegrityError: db.rollback()
                     /\ UNCHANGED cards
                     /\ last' = Outcome("update_card", card_id, updates, exc, viol,
                                        Http(MonsterCardUpdate(updates),
                                             patch_monster_card(exc)), None)

\* DELETE /monster-cards/{id}
remove_monster_card(exc) ==
    CASE exc = "" -> 204
      [] exc = "NotFoundError" -> 404
      [] OTHER -> 500

DeleteMissingSilently(store, id) == FALSE

DeleteMissing(store, id) == id \notin DOMAIN store

DeleteCard(card_id) ==
    /\ prev' = Snapshot
    /\ UNCHANGED <<nextCardId, players, nextPlayerId, images>>
    /\ IF DeleteMissing(cards, card_id)
       THEN /\ UNCHANGED cards
            /\ last' = Outcome("delete_card", card_id, EmptyMap, "NotFoundError", {},
                               remove_monster_card("NotFoundError"), None)
       ELSE IF Referencing(players, card_id) # {}
       THEN \* the foreign key of players.monster_card_id rejects the DELETE
            /\ UNCHANGED cards
            /\ last' = Outcome("delete_card", card_id, EmptyMap, "IntegrityError",
                               {"foreign_key"},
                               remove_monster_card("IntegrityError"), None)
       ELSE /\ cards' = [i \in DOMAIN cards \ {card_id} |-> cards[i]]
            /\ last' = Outcome("delete_card", card_id, EmptyMap, "", {},
                               remove_monster_card(""), None)

--------------------------------------------------------------------------
(***************************************************************************)
(* list_cards.                                                              *)
(***************************************************************************)
Lower(c) ==
    CASE c = "A" -> "a"
      [] c = "F" -> "f"
      [] c = "I" -> "i"
      [] c = "W" -> "w"
      [] OTHER -> c

Upper(c) ==
    CASE c = "a" -> "A"
      [] c = "f" -> "F"
      [] c = "i" -> "I"
      [] c = "w" -> "W"
      [] OTHER -> c

LowerAll(s) == [i \in 1 .. Len(s) |-> Lower(s[i])]

\* text LIKE pattern: % matches any run of characters, _ any one character
RECURSIVE Like(_, _)
Like(pattern, text) ==
    IF pattern = <<>> THEN text = <<>>
    ELSE IF Head(pattern) = "%"
    THEN Like(Tail(pattern), text) \/ (text # <<>> /\ Like(pattern, Tail(text)))
    ELSE /\ text # <<>>
         /\ Head(pattern) = "_" \/ Head(pattern) = Head(text)
         /\ Like(Tail(pattern), Tail(text))

\* MonsterCard.name.ilike(f"%{name_search}%")
NameILike(name, term) ==
    Like(<<"%">> \o LowerAll(term) \o <<"%">>, LowerAll(name))

\* the ids of set S in ascending order
RECURSIVE Ascending(_)
Ascending(S) ==
    IF S = {} THEN <<>>
    ELSE LET m == CHOOSE x \in S : \A y \in S : x <= y
         IN  <<m>> \o Ascending(S \ {m})

Min(a, b) == IF a <= b THEN a ELSE b

\* LIMIT limit OFFSET offset of an ordered result
Window(seq, limit, offset) == SubSeq(seq, offset + 1, Min(offset + limit, Len(seq)))

\* select(MonsterCard).order_by(id).limit(limit).offset(offset), then one
\* WHERE per filter that is given: the WHERE clauses join the same SELECT, so
\* the rows are filtered, ordered, and only then cut to the window.
list_cards(store, q) ==
    LET keep ==
            {i \in DOMAIN store :
                /\ q.primary_type # None
                      => store[i]["primary_type"] = q.primary_type
                /\ q.secondary_type # None
                      => store[i]["secondary_type"] = q.secondary_type
                /\ q.name_search # None /\ Val(q.name_search) # <<>>
                      => NameILike(Val(store[i]["name"]), Val(q.name_search))}
    IN  Window(Ascending(keep), q.limit, q.offset)

ListCards(q) ==
    /\ prev' = Snapshot
    /\ UNCHANGED <<cards, nextCardId, players, nextPlayerId, images>>
    /\ last' = Outcome("list_cards", 0, q, "", {}, 200, list_cards(cards, q))

--------------------------------------------------------------------------
(***************************************************************************)
(* Card renderer and image normalizer.                                      *)
(***************************************************************************)
\* str.capitalize(): first character upper-cased, the rest lower-cased
Capitalize(s) ==
    [i \in 1 .. Len(s) |-> IF i = 1 THEN Upper(s[i]) ELSE Lower(s[i])]

\* str.replace(' ', '_')
Underscored(s) == [i \in 1 .. Len(s) |-> IF s[i] = " " THEN "_" ELSE s[i]]

\* f"{card.name.capitalize().replace(' ', '_')}.png"
MonsterFilename(name) == Underscored(Capitalize(name)) \o <<".png">>

TargetSize == <<230, 150>>

\* A file of the asset store: an image of some size, or bytes that do not
\* decode as an image.
ImageOfSize(size) == [decodes |-> TRUE, size |-> size]

Undecodable == [decodes |-> FALSE, size |-> <<0, 0>>]

\* _ensure_image_size without the size comparison: every decodable file is
\* resized and saved again.
ensure_image_size_always_saves(files, file) ==
    IF file \notin DOMAIN files
    THEN [exc |-> "", files |-> files, wrote |-> FALSE]
    ELSE IF ~files[file].decodes
    THEN [exc |-> "ValueError", files |-> files, wrote |-> FALSE]
    ELSE [exc |-> "", wrote |-> TRUE,
          files |-> [files EXCEPT ![file] = ImageOfSize(TargetSize)]]

\* _ensure_image_size: [exc, files, wrote] after the call on `file`; `wrote`
\* tells whether resized.save(image_path) ran.
ensure_image_size(files, file) ==
    IF file \notin DOMAIN files
    THEN [exc |-> "", files |-> files, wrote |-> FALSE]
    ELSE IF ~files[file].decodes
    THEN [exc |-> "ValueError", files |-> files, wrote |-> FALSE]
    ELSE IF files[file].size # TargetSize
    THEN [exc |-> "", wrote |-> TRUE,
          files |-> [files EXCEPT ![file] = ImageOfSize(TargetSize)]]
    ELSE [exc |-> "", files |-> files, wrote |-> FALSE]

\* A direct call _ensure_image_size(image_path); the outcome's detail holds
\* "save" when the call wrote the file.
EnsureImageSize(file) ==
    LET sized == ensure_image_size(images, file)
    IN  /\ prev' = Snapshot
        /\ UNCHANGED <<cards, nextCardId, players, nextPlayerId>>
        /\ images' = sized.files
        /\ last' = Outcome("_ensure_image_size", 0, ("image_path" :> Some(file)),
                           sized.exc, IF sized.wrote THEN {"save"} ELSE {}, 0, None)

\* The display variants and the template store: the four variant names, and
\* the template files present under HTML_FORMATS_DIR.
DisplayTypes == {"normal", "sunlight", "moonlight", "twilight"}

CardTemplate ==
    <<"<div>", "$name", "$description", "$primary_type_image_path",
      "$secondary_type_image_path", "$health", "$attack", "$defense", "$speed",
      "$image_path", "$caption", "</div>">>

TemplateStore ==
    [d \in {"normal", "sunlight", "moonlight"} |-> CardTemplate]

PUBLIC_MONSTER_IMAGES_URL == "/assets/monster_cards/monster_card_images"

PUBLIC_TYPE_ICONS_URL == "/assets/monster_cards/types_icons"

\* f"{PUBLIC_TYPE_ICONS_URL}/{type.value.lower()}_icon.png"; the enum's
\* values are lower-case already
TypeIcon(type) == <<PUBLIC_TYPE_ICONS_URL, "/", type, "_icon.png">>

\* Template.safe_substitute: a placeholder with a value is replaced, any
\* other text stays as it is
SafeSubstitute(template, values) ==
    [i \in 1 .. Len(template) |->
        IF template[i] \in DOMAIN values THEN values[template[i]] ELSE template[i]]

CardValues(card) ==
    [k \in {"$name", "$description", "$primary_type_image_path",
            "$secondary_type_image_path", "$health", "$attack", "$defense",
            "$speed", "$image_path"} |->
        CASE k = "$name" -> Val(card["name"])
          [] k = "$description" ->
                IF card["description"] = None THEN "" ELSE Val(card["description"])
          [] k = "$primary_type_image_path" -> TypeIcon(Val(card["primary_type"]))
          [] k = "$secondary_type_image_path" -> TypeIcon(Val(card["secondary_type"]))
          [] k = "$image_path" ->
                <<PUBLIC_MONSTER_IMAGES_URL, "/">> \o MonsterFilename(Val(card["name"]))
          [] k = "$health" -> Val(card["health"])
          [] k = "$attack" -> Val(card["attack"])
          [] k = "$defense" -> Val(card["defense"])
          [] k = "$speed" -> Val(card["speed"])]

\* GET /monster-cards/display/{variant}/{id}: only NotFoundError is translated
display_route(exc) ==
    CASE exc = "" -> 200
      [] exc = "NotFoundError" -> 404
      [] OTHER -> 500

Display(card_id, display) ==
    /\ prev' = Snapshot
    /\ UNCHANGED <<cards, nextCardId, players, nextPlayerId>>
    /\ IF get_card(cards, card_id) = None
       THEN /\ UNCHANGED images
            /\ last' = Outcome("display_monster_card", card_id,
                               ("display" :> Some(display)), "NotFoundError", {},
                               display_route("NotFoundError"), None)
       ELSE IF display \notin DOMAIN TemplateStore
       THEN \* html_display_path.read_text raises
            /\ UNCHANGED images
            /\ last' = Outcome("display_monster_card", card_id,
                               ("display" :> Some(display)), "FileNotFoundError", {},
                               display_route("FileNotFoundError"), None)
       ELSE LET card == cards[card_id]
                sized == ensure_image_size(images, MonsterFilename(Val(card["name"])))
                exc == IF sized.exc # "" THEN sized.exc
                       ELSE IF card["secondary_type"] = None
                       THEN "AttributeError"  \* card.secondary_type.value
                       ELSE ""
            IN  /\ images' = sized.files
                /\ last' = Outcome("display_monster_card", card_id,
                                   ("display" :> Some(display)), exc, {},
                                   display_route(exc),
                                   IF exc = ""
                                   THEN Some(SafeSubstitute(TemplateStore[display],
                                                            CardValues(card)))
                                   ELSE None)

--------------------------------------------------------------------------
(***************************************************************************)
(* Player repository.                                                       *)
(***************************************************************************)
PlayerFields == {"name", "team", "monster_card_id"}

\* _UPDATABLE_FIELDS of app/crud/player.py
PlayerUpdatable == {"name", "team", "monster_card_id"}

\* The players table's constraints at commit: name NOT NULL and unique, and
\* the foreign key monster_card_id -> monster_cards.id.
PlayerViolations(pstore, cstore, id, row) ==
    {c \in {"not_null", "unique_name", "foreign_key"} :
        \/ c = "not_null" /\ row["name"] = None
        \/ c = "unique_name"
             /\ row["name"] # None
             /\ \E j \in DOMAIN pstore \ {id} : pstore[j]["name"] = row["name"]
        \/ c = "foreign_key"
             /\ row["monster_card_id"] # None
             /\ Val(row["monster_card_id"]) \notin DOMAIN cstore}

get_player(pstore, player_id) ==
    IF player_id \in DOMAIN pstore THEN Some(player_id) ELSE None

get_player_by_name(pstore, name) ==
    {i \in DOMAIN pstore : pstore[i]["name"] = Some(name)}

\* Player(name=data.name, monster_card_id=data.monster_card_id): team is not
\* passed, so the column default (TeamType.neutral) is inserted.
NewPlayer(data) ==
    [f \in PlayerFields |->
        CASE f = "name" -> data["name"]
          [] f = "team" -> Some("neutral")
          [] f = "monster_card_id" -> data["monster_card_id"]]

CardMissingNever(store, ref) == FALSE

\* get_card(db, player.monster_card_id) is None; a null id selects
\* WHERE id IS NULL, which no row satisfies.
CardMissing(store, ref) ==
    IF ref = None THEN TRUE ELSE get_card(store, Val(ref)) = None

\* POST /player/: every exception, the HTTPException(400) of create_player
\* included, is re-raised as 409.
create_player_route(exc) == IF exc = "" THEN 201 ELSE 409

CreatePlayer(data) ==
    LET row == NewPlayer(data)
        viol == PlayerViolations(players, cards, nextPlayerId, row)
    IN  /\ nextPlayerId <= MaxPlayers
        /\ prev' = Snapshot
        /\ UNCHANGED <<cards, nextCardId, images>>
        /\ IF CardMissing(cards, row["monster_card_id"])
           THEN /\ UNCHANGED <<players, nextPlayerId>>
                /\ last' = Outcome("create_player", 0, data, "HTTPException",
                                   {"monster_card_id does not exist"},
                                   Http(PlayerBase(data),
                                        create_player_route("HTTPException")),
                                   None)
           ELSE IF viol = {}
           THEN /\ players' = players @@ (nextPlayerId :> row)
                /\ nextPlayerId' = nextPlayerId + 1
                /\ last' = Outcome("create_player", nextPlayerId, data, "", {},
                                   Http(PlayerBase(data), create_player_route("")),
                                   Some(nextPlayerId))
           ELSE /\ UNCHANGED <<players, nextPlayerId>>
                /\ last' = Outcome("create_player", 0, data, "HTTPException", viol,
                                   Http(PlayerBase(data),
                                        create_player_route("HTTPException")),
                                   None)

\* PATCH /player/{id}
patch_player_route(exc) ==
    CASE exc = "" -> 200
      [] exc = "NotFoundError" -> 404
      [] OTHER -> 409

\* update_player: after a commit that succeeded, `if "name" in clean: raise
\* DuplicateNameError(...) from e` runs outside the except block, where e is
\* unbound: the raise statement itself fails with UnboundLocalError, and the
\* commit stands.
UpdatePlayer(player_id, updates) ==
    /\ prev' = Snapshot
    /\ UNCHANGED <<cards, nextCardId, nextPlayerId, images>>
    /\ IF get_player(players, player_id) = None
       THEN /\ UNCHANGED players
            /\ last' = Outcome("update_player", player_id, updates, "NotFoundError",
                               {},
                               Http(PlayerBase(updates),
                                    patch_player_route("NotFoundError")), None)
       ELSE LET clean == Clean(updates, PlayerUpdatable)
                row == SetAttrs(players[player_id], clean)
                viol == PlayerViolations(players, cards, player_id, row)
                exc == IF "name" \in DOMAIN clean THEN "UnboundLocalError" ELSE ""
            IN  IF viol = {}
                THEN /\ players' = [players EXCEPT ![player_id] = row]
                     /\ last' = Outcome("update_player", player_id, updates, exc, {},
                                        Http(PlayerBase(updates),
                                             patch_player_route(exc)),
                                        IF exc = "" THEN Some(player_id) ELSE None)
                ELSE \* IntegrityError: db.rollback(); raise
                     /\ UNCHANGED players
                     /\ last' = Outcome("update_player", player_id, updates,
                                        "IntegrityError", viol,
                                        Http(PlayerBase(updates),
                                             patch_player_route("IntegrityError")),
                                        None)

\* DELETE /player/{id}
remove_player_route(exc) ==
    CASE exc = "" -> 204
      [] exc = "NotFoundError" -> 404
      [] OTHER -> 500

DeletePlayer(player_id) ==
    /\ prev' = Snapshot
    /\ UNCHANGED <<cards, nextCardId, nextPlayerId, images>>
    /\ IF get_player(players, player_id) = None
       THEN /\ UNCHANGED players
            /\ last' = Outcome("delete_player", player_id, EmptyMap, "NotFoundError",
                               {}, remove_player_route("NotFoundError"), None)
       ELSE /\ players' = [i \in DOMAIN players \ {player_id} |-> players[i]]
            /\ last' = Outcome("delete_player", player_id, EmptyMap, "", {},
                               remove_player_route(""), None)

\* GET /monster-cards/{id}, GET /monster-cards/by-name/{name},
\* GET /player/{id}, GET /player/by-name/{name}: 404 when the lookup is None
get_route(found) == IF found = None THEN 404 ELSE 200

GetCard(card_id) ==
    /\ prev' = Snapshot
    /\ UNCHANGED <<cards, nextCardId, players, nextPlayerId, images>>
    /\ last' = Outcome("get_card", card_id, EmptyMap, "", {},
                       get_route(get_card(cards, card_id)), get_card(cards, card_id))

GetCardByName(name) ==
    /\ prev' = Snapshot
    /\ UNCHANGED <<cards, nextCardId, players, nextPlayerId, images>>
    /\ last' = Outcome("get_card_by_name", 0, ("name" :> Some(name)), "", {},
                       get_route(get_card_by_name(cards, name)),
                       get_card_by_name(cards, name))

GetPlayer(player_id) ==
    /\ prev' = Snapshot
    /\ UNCHANGED <<cards, nextCardId, players, nextPlayerId, images>>
    /\ last' = Outcome("get_player", player_id, EmptyMap, "", {},
                       get_route(get_player(players, player_id)),
                       get_player(players, player_id))

GetPlayerByName(name) ==
    /\ prev' = Snapshot
    /\ UNCHANGED <<cards, nextCardId, players, nextPlayerId, images>>
    /\ last' = Outcome("get_player_by_name", 0, ("name" :> Some(name)), "", {},
                       get_route(get_player_by_name(players, name)),
                       get_player_by_name(players, name))

--------------------------------------------------------------------------
(***************************************************************************)
(* Inputs of the card-repository specification.                             *)
(***************************************************************************)
CardData(name, pt, st, health) ==
    [f \in CardFields |->
        CASE f = "name" -> Some(name)
          [] f = "description" -> None
          [] f = "primary_type" -> Some(pt)
          [] f = "secondary_type" -> st
          [] f = "health" -> Some(health)
          [] f = "attack" -> Some(3)
          [] f = "defense" -> Some(2)
          [] f = "speed" -> Some(4)]

CardInputs ==
    {CardData(n, pt, st, 5) :
        n \in CardNames, pt \in CardTypes,
        st \in {None} \cup {Some(t) : t \in CardTypes}}
        \cup {CardData(NameFi, "fire", None, -1)}

PatchValues(k) ==
    CASE k = "name" -> {Some(n) : n \in CardNames} \cup {None}
      [] k = "description" -> {Some("d")}
      [] k \in {"primary_type", "secondary_type"} ->
            {Some(t) : t \in CardTypes} \cup {None}
      [] k = "health" -> {Some(-1), None}
      [] k = "speed" -> {Some(-1)}
      [] k = "id" -> {Some(99)}

PatchKeys ==
    {"name", "description", "primary_type", "secondary_type", "health", "speed", "id"}

Patch1(k) == {(k :> v) : v \in PatchValues(k)}

Patch2(k1, k2) == {p @@ q : p \in Patch1(k1), q \in Patch1(k2)}

CardPatches ==
    {EmptyMap}
        \cup UNION {Patch1(k) : k \in PatchKeys}
        \cup Patch2("primary_type", "secondary_type")
        \cup Patch2("name", "health")
        \cup Patch2("description", "id")

CardIds == 1 .. MaxCards

NoCall == Outcome("init", 0, EmptyMap, "", {}, 0, None)

Init ==
    /\ cards = EmptyMap
    /\ nextCardId = 1
    /\ players = EmptyMap
    /\ nextPlayerId = 1
    /\ images = EmptyMap
    /\ prev = [cards |-> EmptyMap, players |-> EmptyMap, images |-> EmptyMap]
    /\ last = NoCall

(***************************************************************************)
(* Inputs of the specification of the whole service: both repositories     *)
(* behind their routers.                                                    *)
(***************************************************************************)
ServiceCardInputs ==
    {CardData(n, "fire", None, h) : n \in CardNames, h \in {5}}
        \cup {CardData(NameFi, "fire", None, -1)}

ServiceCardPatches == Patch1("name")

PlayerNames == {<<"a", "n">>, <<"b">>}

CardRefs == {None} \cup {Some(i) : i \in CardIds}

PlayerData(name, team, ref) ==
    [f \in PlayerFields |->
        CASE f = "name" -> Some(name)
          [] f = "team" -> Some(team)
          [] f = "monster_card_id" -> ref]

PlayerInputs == {PlayerData(n, "owl", r) : n \in PlayerNames, r \in CardRefs}

PlayerPatchValues(k) ==
    CASE k = "name" -> {Some(n) : n \in PlayerNames}
      [] k = "team" -> {Some("owl")}
      [] k = "monster_card_id" -> CardRefs

PlayerPatch1(k) == {(k :> v) : v \in PlayerPatchValues(k)}

PlayerPatches ==
    UNION {PlayerPatch1(k) : k \in PlayerFields}
        \cup {p @@ q : p \in PlayerPatch1("name"), q \in PlayerPatch1("team")}

PlayerIds == 1 .. MaxPlayers

Next ==
    \/ \E data \in ServiceCardInputs : CreateCard(data)
    \/ \E id \in CardIds, p \in ServiceCardPatches : UpdateCard(id, p)
    \/ \E id \in CardIds : DeleteCard(id)
    \/ \E id \in CardIds : GetCard(id)
    \/ \E n \in CardNames : GetCardByName(n)
    \/ \E data \in PlayerInputs : CreatePlayer(data)
    \/ \E id \in PlayerIds, p \in PlayerPatches : UpdatePlayer(id, p)
    \/ \E id \in PlayerIds : DeletePlayer(id)
    \/ \E id \in PlayerIds : GetPlayer(id)
    \/ \E n \in PlayerNames : GetPlayerByName(n)

Spec == Init /\ [][Next]_vars

(***************************************************************************)
(* Inputs of the listing specification: three names that differ in case    *)
(* and content, and search terms with and without LIKE's special           *)
(* characters.                                                              *)
(***************************************************************************)
NameW == <<"W">>

ListCardInputs ==
    {CardData(n, pt, st, 5) :
        n \in CardNames \cup {NameW}, pt \in CardTypes, st \in {None, Some("water")}}

SearchTerms == {<<>>, <<"f">>, <<"I">>, <<"_">>}

Queries ==
    [limit : {1, 2}, offset : {0, 1},
     primary_type : {None, Some("fire")},
     secondary_type : {None, Some("water")},
     name_search : {None} \cup {Some(t) : t \in SearchTerms}]

NextList ==
    \/ \E data \in ListCardInputs : CreateCard(data)
    \/ \E id \in CardIds : DeleteCard(id)
    \/ \E q \in Queries : ListCards(q)

SpecList == Init /\ [][NextList]_vars

(***************************************************************************)
(* Inputs of the rendering specification: the asset store holds no image,  *)
(* or one file under a card's derived name.                                 *)
(***************************************************************************)
DisplayCardInputs ==
    {CardData(n, "fire", st, 5) : n \in CardNames, st \in {None, Some("water")}}

DisplayCardPatches == {("secondary_type" :> None), ("name" :> Some(NameAF))}

AssetFiles ==
    {ImageOfSize(TargetSize), ImageOfSize(<<460, 300>>), ImageOfSize(<<150, 230>>),
     Undecodable}

AssetStores ==
    {EmptyMap} \cup {(MonsterFilename(n) :> f) : n \in CardNames, f \in AssetFiles}

InitDisplay ==
    /\ cards = EmptyMap
    /\ nextCardId = 1
    /\ players = EmptyMap
    /\ nextPlayerId = 1
    /\ images \in AssetStores
    /\ prev = [cards |-> EmptyMap, players |-> EmptyMap, images |-> images]
    /\ last = NoCall

NextDisplay ==
    \/ \E data \in DisplayCardInputs : CreateCard(data)
    \/ \E id \in CardIds, p \in DisplayCardPatches : UpdateCard(id, p)
    \/ \E id \in CardIds, d \in DisplayTypes : Display(id, d)
    \/ \E n \in CardNames : EnsureImageSize(MonsterFilename(n))

SpecDisplay == InitDisplay /\ [][NextDisplay]_vars

NextCards ==
    \/ \E data \in CardInputs : CreateCard(data)
    \/ \E id \in CardIds, p \in CardPatches : UpdateCard(id, p)
    \/ \E id \in CardIds : DeleteCard(id)

SpecCards == Init /\ [][NextCards]_vars

\* The card repository's update beside stored players: cards of both names,
\* a player referencing the first card, and every patch of CardPatches.
FrameCardInputs ==
    {CardData(n, "fire", st, 5) : n \in CardNames, st \in {None, Some("water")}}

FramePlayerInputs == {PlayerData(<<"b">>, "owl", Some(1))}

NextFrame ==
    \/ \E data \in FrameCardInputs : CreateCard(data)
    \/ \E data \in FramePlayerInputs : CreatePlayer(data)
    \/ \E id \in CardIds, p \in CardPatches : UpdateCard(id, p)

SpecFrame == Init /\ [][NextFrame]_vars

--------------------------------------------------------------------------
(***************************************************************************)
(* Properties.                                                              *)
(***************************************************************************)
CardNamesOf(store) == {store[i]["name"] : i \in DOMAIN store}

PlayerNamesOf(pstore) == {pstore[i]["name"] : i \in DOMAIN pstore}

\* C1: in every reachable state every stored MonsterCard has a non-null
\* secondary_type.
C1_SecondaryTypeNeverNull ==
    \A i \in DOMAIN cards : cards[i]["secondary_type"] # None

\* C2: after a successful create_card the stored card's secondary_type is
\* its primary_type when the input's secondary_type was omitted or null, and
\* the supplied secondary_type otherwise.
C2_CreateFillsSecondary ==
    last.op = "create_card" /\ last.exc = ""
        => /\ last.id \in DOMAIN cards
           /\ cards[last.id]["primary_type"] = last.data["primary_type"]
           /\ IF last.data["secondary_type"] = None
              THEN cards[last.id]["secondary_type"] = cards[last.id]["primary_type"]
              ELSE cards[last.id]["secondary_type"] = last.data["secondary_type"]

C2_Witness ==
    /\ last.op = "create_card" /\ last.exc = ""
    /\ last.data["secondary_type"] = None
    /\ last.id \in DOMAIN cards
    /\ last.id \notin DOMAIN prev.cards
    /\ cards[last.id]["secondary_type"] = Some("water")

\* C3: after a successful update_card whose patch contains primary_type and
\* whose secondary_type is absent or null, the card's secondary_type equals
\* the new primary_type, whatever it held before.
C3_UpdateRefillsSecondary ==
    /\ last.op = "update_card" /\ last.exc = ""
    /\ "primary_type" \in DOMAIN last.data
    /\ \/ "secondary_type" \notin DOMAIN last.data
       \/ last.data["secondary_type"] = None
    => /\ cards[last.id]["primary_type"] = last.data["primary_type"]
       /\ cards[last.id]["secondary_type"] = last.data["primary_type"]

C3_Witness ==
    /\ last.op = "update_card" /\ last.exc = ""
    /\ "primary_type" \in DOMAIN last.data
    /\ "secondary_type" \in DOMAIN last.data
    /\ last.data["secondary_type"] = None
    /\ prev.cards[last.id]["secondary_type"] # None
    /\ prev.cards[last.id]["secondary_type"] # last.data["primary_type"]
    /\ prev.cards[last.id]["primary_type"] # prev.cards[last.id]["secondary_type"]
    /\ cards[last.id]["secondary_type"] = last.data["primary_type"]

\* C4: create_card with a name an existing card already has fails with
\* DuplicateName, and the stored cards are exactly those stored before.
C4_DuplicateCreateRaisesDuplicateName ==
    /\ last.op = "create_card"
    /\ last.data["name"] \in CardNamesOf(prev.cards)
    => /\ last.exc = "DuplicateNameError"
       /\ cards = prev.cards

\* C5: create_player with a monster_card_id that is no stored card's id
\* fails with the reference error and leaves the stored players unchanged.
C5_CreatePlayerUnknownCardFails ==
    /\ last.op = "create_player"
    /\ last.data["monster_card_id"] # None
    /\ Val(last.data["monster_card_id"]) \notin DOMAIN prev.cards
    => /\ last.exc = "HTTPException"
       /\ last.detail = {"monster_card_id does not exist"}
       /\ players = prev.players

C5_Witness ==
    /\ last.op = "create_player"
    /\ last.data["monster_card_id"] # None
    /\ Val(last.data["monster_card_id"]) \notin DOMAIN prev.cards
    /\ DOMAIN prev.cards # {}
    /\ DOMAIN players # {}
    /\ last.data["name"] \notin PlayerNamesOf(players)
    /\ last.exc = "HTTPException"

\* C6: create_player with an unused name and monster_card_id absent (null)
\* succeeds and stores a player whose monster_card_id is null.
C6_CreatePlayerWithoutCardSucceeds ==
    /\ last.op = "create_player"
    /\ last.data["monster_card_id"] = None
    /\ last.data["name"] \notin PlayerNamesOf(prev.players)
    => /\ last.exc = ""
       /\ last.id \in DOMAIN players
       /\ players[last.id]["monster_card_id"] = None

\* C7: delete_card and delete_player with an id that matches no stored
\* record fail with NotFound and leave every card and player as it was.
C7_DeleteMissingIsNotFound ==
    \/ last.op = "delete_card" /\ last.id \notin DOMAIN prev.cards
    \/ last.op = "delete_player" /\ last.id \notin DOMAIN prev.players
    => /\ last.exc = "NotFoundError"
       /\ cards = prev.cards
       /\ players = prev.players

C7_Witness ==
    /\ last.op = "delete_card"
    /\ last.id \notin DOMAIN prev.cards
    /\ DOMAIN cards # {}
    /\ DOMAIN players # {}
    /\ last.exc = "NotFoundError"

\* whether `term` occurs in `text` as a run of consecutive characters
Contains(text, term) ==
    \E k \in 0 .. Len(text) - Len(term) :
        \A j \in 1 .. Len(term) : text[k + j] = term[j]

NameContains(name, term) == Contains(LowerAll(name), LowerAll(term))

\* the cards that satisfy every filter the query supplies, a name_search
\* being a case-insensitive substring of the name
C8_Matching(store, q) ==
    {i \in DOMAIN store :
        /\ q.primary_type # None => store[i]["primary_type"] = q.primary_type
        /\ q.secondary_type # None => store[i]["secondary_type"] = q.secondary_type
        /\ q.name_search # None
              => NameContains(Val(store[i]["name"]), Val(q.name_search))}

\* C8: list_cards returns exactly the cards that satisfy every supplied
\* filter (name_search a case-insensitive substring of the name), by id
\* ascending, cut to positions [offset, offset+limit) of that sequence.
C8_ListIsFilteredSortedWindow ==
    last.op = "list_cards"
        => last.ret = SubSeq(Ascending(C8_Matching(cards, last.data)),
                             last.data.offset + 1,
                             Min(last.data.offset + last.data.limit,
                                 Cardinality(C8_Matching(cards, last.data))))

\* the displayed card's derived image file was absent, or an image
C9_ImageAbsentOrPresent ==
    LET file == MonsterFilename(Val(cards[last.id]["name"]))
    IN  file \in DOMAIN prev.images => prev.images[file].decodes

\* C9: display_monster_card returns HTML or fails with NotFound or
\* TemplateMissing: for a stored card and a variant whose template exists it
\* returns the substituted text, whether the card's derived image file is
\* absent from the asset store or is an image in it.
C9_DisplayRendersEveryStoredCard ==
    /\ last.op = "display_monster_card"
    /\ last.id \in DOMAIN cards
    /\ Val(last.data["display"]) \in DOMAIN TemplateStore
    /\ C9_ImageAbsentOrPresent
    => /\ last.exc = ""
       /\ last.ret = Some(SafeSubstitute(TemplateStore[Val(last.data["display"])],
                                         CardValues(cards[last.id])))

\* the kinds of request the status mapping distinguishes
C10_BodyValid ==
    CASE last.op = "create_card" -> MonsterCardCreate(last.data)
      [] last.op = "update_card" -> MonsterCardUpdate(last.data)
      [] last.op \in {"create_player", "update_player"} -> PlayerBase(last.data)
      [] OTHER -> TRUE

C10_Absent ==
    \/ last.op \in {"update_card", "delete_card", "get_card"}
          /\ last.id \notin DOMAIN prev.cards
    \/ last.op \in {"update_player", "delete_player", "get_player"}
          /\ last.id \notin DOMAIN prev.players
    \/ last.op = "get_card_by_name" /\ last.data["name"] \notin CardNamesOf(cards)
    \/ last.op = "get_player_by_name"
          /\ last.data["name"] \notin PlayerNamesOf(players)

C10_BadReference ==
    /\ last.op = "create_player"
    /\ last.data["monster_card_id"] # None
    /\ Val(last.data["monster_card_id"]) \notin DOMAIN prev.cards

C10_Duplicate ==
    \/ last.op = "create_card" /\ last.data["name"] \in CardNamesOf(prev.cards)
    \/ /\ last.op = "update_card" /\ last.id \in DOMAIN prev.cards
       /\ "name" \in DOMAIN last.data
       /\ \E j \in DOMAIN prev.cards \ {last.id} :
             prev.cards[j]["name"] = last.data["name"]
    \/ /\ last.op = "create_player" /\ ~C10_BadReference
       /\ last.data["name"] \in PlayerNamesOf(prev.players)
    \/ /\ last.op = "update_player" /\ last.id \in DOMAIN prev.players
       /\ "name" \in DOMAIN last.data
       /\ \E j \in DOMAIN prev.players \ {last.id} :
             prev.players[j]["name"] = last.data["name"]

\* C10: at the HTTP boundary of both routers an absent id or name yields 404,
\* a duplicate name on create or patch yields 409, and a player referencing a
\* nonexistent card yields neither 404 nor 409.  Stated for the requests
\* whose body passes its schema, the ones that reach a route of app/routers
\* (the claim's remaining case, a body the schema rejects, is answered before
\* any route runs).
C10_StatusByErrorKind ==
    C10_BodyValid
        => /\ C10_Absent => last.http = 404
           /\ ~C10_Absent /\ C10_Duplicate => last.http = 409
           /\ C10_BadReference => last.http \notin {404, 409}

\* the file the last _ensure_image_size call was given
C11_File == Val(last.data["image_path"])

\* the other files of the asset store are those of before the call
C11_OthersKept ==
    /\ DOMAIN images = DOMAIN prev.images
    /\ \A f \in DOMAIN images \ {C11_File} : images[f] = prev.images[f]

\* a call on an absent file changes nothing, raises nothing, writes nothing
C11_AbsentIsNoOp ==
    C11_File \notin DOMAIN prev.images
        => last.exc = "" /\ images = prev.images /\ last.detail = {}

\* a call on a file already at the target size writes nothing and leaves the
\* store as it was
C11_FurtherCallIsNoOp ==
    /\ C11_File \in DOMAIN prev.images
    /\ prev.images[C11_File] = ImageOfSize(TargetSize)
    => last.exc = "" /\ images = prev.images /\ last.detail = {}

\* a second call, made in the state the last call left, is such a call
C11_SecondCall ==
    LET again == ensure_image_size(images, C11_File)
    IN  last.exc = "" => again.files = images /\ ~again.wrote /\ again.exc = ""

\* C11: _ensure_image_size is idempotent: on an absent file the call changes
\* nothing and raises nothing; an image file has the target dimensions after
\* one call, only that file being touched and saved only when its size
\* differed; a further call with the same target performs no write and
\* leaves the file unchanged.  (A file that is no image has no dimensions:
\* the call raises ValueError and leaves it as it was.)
C11_EnsureSizeIdempotent ==
    last.op = "_ensure_image_size"
        => /\ C11_AbsentIsNoOp
           /\ C11_File \in DOMAIN prev.images /\ prev.images[C11_File].decodes
                 => /\ last.exc = ""
                    /\ images[C11_File] = ImageOfSize(TargetSize)
                    /\ last.detail = {"save"}
                          <=> prev.images[C11_File].size # TargetSize
           /\ C11_File \in DOMAIN prev.images /\ ~prev.images[C11_File].decodes
                 => last.exc = "ValueError" /\ images = prev.images
           /\ C11_OthersKept
           /\ C11_FurtherCallIsNoOp
           /\ C11_SecondCall

\* a call that resized a file of another size, in a store where a second
\* call on it is then a further call
C11_Witness ==
    /\ last.op = "_ensure_image_size"
    /\ C11_File \in DOMAIN prev.images
    /\ prev.images[C11_File] = ImageOfSize(<<150, 230>>)
    /\ images[C11_File] = ImageOfSize(TargetSize)
    /\ last.detail = {"save"}

\* the keys update_card may write, as the claim lists them
C12_AllowList ==
    {"name", "description", "primary_type", "secondary_type",
     "health", "attack", "defense", "speed"}

\* the patch has primary_type and has no secondary_type, or a null one
C12_AutoFillFires ==
    /\ "primary_type" \in DOMAIN last.data
    /\ \/ "secondary_type" \notin DOMAIN last.data
       \/ last.data["secondary_type"] = None

\* C12: a successful update_card changes only the target card and only the
\* allow-listed fields present in the patch, plus secondary_type when the
\* auto-fill rule fires: the card keeps its id and its set of columns, a
\* column whose value changed is a patched allow-listed one carrying the
\* patch's value or the auto-filled secondary_type, keys outside the list
\* are ignored, and every other card and every player is as before.
C12_UpdateChangesOnlyPatched ==
    last.op = "update_card" /\ last.exc = ""
        => /\ DOMAIN cards = DOMAIN prev.cards
           /\ \A j \in DOMAIN cards \ {last.id} : cards[j] = prev.cards[j]
           /\ players = prev.players
           /\ DOMAIN cards[last.id] = DOMAIN prev.cards[last.id]
           /\ \A f \in DOMAIN cards[last.id] :
                 cards[last.id][f] # prev.cards[last.id][f]
                    => \/ /\ f \in C12_AllowList \cap DOMAIN last.data
                          /\ cards[last.id][f] = last.data[f]
                       \/ /\ f = "secondary_type"
                          /\ C12_AutoFillFires
                          /\ cards[last.id][f] = cards[last.id]["primary_type"]

\* a successful patch carrying a key outside the list beside a listed one,
\* on a card with distinct types that a player references, another card
\* being stored
C12_Witness ==
    /\ last.op = "update_card" /\ last.exc = ""
    /\ DOMAIN last.data = {"description", "id"}
    /\ cards[last.id]["description"] # prev.cards[last.id]["description"]
    /\ cards[last.id]["secondary_type"] # cards[last.id]["primary_type"]
    /\ Referencing(players, last.id) # {}
    /\ DOMAIN cards \ {last.id} # {}

\* the patch of the last update_player names no other player's name and, if
\* it gives a card, a stored one
C13_PatchAcceptable ==
    /\ "name" \in DOMAIN last.data
          => /\ last.data["name"] # None
             /\ \A j \in DOMAIN prev.players \ {last.id} :
                   prev.players[j]["name"] # last.data["name"]
    /\ "monster_card_id" \in DOMAIN last.data
          /\ last.data["monster_card_id"] # None
          => Val(last.data["monster_card_id"]) \in DOMAIN prev.cards

\* C13: update_player on an existing player with a patch whose name no other
\* player holds and whose monster_card_id, if given, references a stored
\* card succeeds, returning the updated player that carries the patched
\* values; it fails only with NotFound for an absent id or on a constraint
\* violation, and then the stored players are those of before.
C13_UpdatePlayerSucceeds ==
    last.op = "update_player"
        => /\ last.id \in DOMAIN prev.players /\ C13_PatchAcceptable
                 => /\ last.exc = ""
                    /\ last.ret = Some(last.id)
                    /\ \A f \in DOMAIN last.data \cap PlayerFields :
                          players[last.id][f] = last.data[f]
           /\ last.exc # ""
                 => /\ \/ last.exc = "NotFoundError"
                             /\ last.id \notin DOMAIN prev.players
                       \/ last.detail # {}
                    /\ players = prev.players

\* C14: update_card fails with DuplicateName only when the patch contains a
\* name that a different stored card already holds; a patch that contains a
\* name and fails for another constraint (a negative stat, a null written
\* to a required field) is not reported as DuplicateName.
C14_DuplicateNameOnlyForHeldName ==
    last.op = "update_card" /\ last.exc = "DuplicateNameError"
        => /\ "name" \in DOMAIN last.data
           /\ last.data["name"] # None
           /\ \E j \in DOMAIN prev.cards \ {last.id} :
                 prev.cards[j]["name"] = last.data["name"]

\* C15: referential integrity holds in every reachable state: each stored
\* player's monster_card_id is null or the id of a currently stored card,
\* also after update_player has set monster_card_id and after delete_card
\* was called on a card that players reference.
C15_ReferentialIntegrity ==
    \A p \in DOMAIN players :
        \/ players[p]["monster_card_id"] = None
        \/ Val(players[p]["monster_card_id"]) \in DOMAIN cards

\* delete_card was called on a stored card that a player references, two
\* cards being stored
C15_Witness ==
    /\ last.op = "delete_card"
    /\ last.id \in DOMAIN prev.cards
    /\ \E p \in DOMAIN prev.players :
          prev.players[p]["monster_card_id"] = Some(last.id)
    /\ DOMAIN prev.cards \ {last.id} # {}

\* C16: create_player round-trips its input: after a successful call
\* get_player and get_player_by_name return the player whose name, team and
\* monster_card_id are the supplied values (a recognized team is stored as
\* supplied, not as neutral).
C16_CreatePlayerRoundTrips ==
    last.op = "create_player" /\ last.exc = ""
        => /\ last.ret # None
           /\ get_player(players, Val(last.ret)) = last.ret
           /\ get_player_by_name(players, Val(last.data["name"])) = last.ret
           /\ \A f \in {"name", "team", "monster_card_id"} :
                 players[Val(last.ret)][f] = last.data[f]

==========================================================================
